---- MODULE Spec2Model ----
(***************************************************************************)
(* Model of the used-car monitor bot: the matcher (matcher.py), the SQLite *)
(* store (storage.py), the Telegram notifier's gates (notifier_telegram.py)*)
(* and the poll loop (main.py).                                            *)
(*                                                                         *)
(* Text is a sequence of one-character strings, so that lower(), upper(),  *)
(* substring tests and the plate patterns are computed, not assumed.       *)
(* An optional value (Python None / missing key) is the empty tuple <<>>,  *)
(* a present value v is the one-element tuple <<v>>.                       *)
(***************************************************************************)
EXTENDS Integers, Sequences, FiniteSets, TLC

-----------------------------------------------------------------------------
(* Optional values *)
None == <<>>
Some(v) == <<v>>
IsNone(x) == x = <<>>
Val(x) == x[1]

-----------------------------------------------------------------------------
(* Characters and Python's str.lower / str.upper / "in" *)
LowerAlpha == <<"a", "b", "c", "d", "e", "f", "g", "h", "i", "j", "k", "l", "m", "n", "o", "p", "q", "r", "s", "t", "u", "v", "w", "x", "y", "z">>
UpperAlpha == <<"A", "B", "C", "D", "E", "F", "G", "H", "I", "J", "K", "L", "M", "N", "O", "P", "Q", "R", "S", "T", "U", "V", "W", "X", "Y", "Z">>
Digits == {"0", "1", "2", "3", "4", "5", "6", "7", "8", "9"}

Range(s) == {s[i] : i \in DOMAIN s}
UpperLetters == Range(UpperAlpha)
LowerLetters == Range(LowerAlpha)

LowerChar(c) ==
    IF c \in UpperLetters
    THEN LowerAlpha[CHOOSE i \in DOMAIN UpperAlpha : UpperAlpha[i] = c]
    ELSE c
UpperChar(c) ==
    IF c \in LowerLetters
    THEN UpperAlpha[CHOOSE i \in DOMAIN LowerAlpha : LowerAlpha[i] = c]
    ELSE c
Lower(s) == [i \in DOMAIN s |-> LowerChar(s[i])]
Upper(s) == [i \in DOMAIN s |-> UpperChar(s[i])]

(* f"{title} {description}" *)
JoinTD(title, description) == title \o <<" ">> \o description

(* kw in text *)
Contains(text, kw) ==
    \E i \in 0 .. (Len(text) - Len(kw)) :
        \A j \in 1 .. Len(kw) : text[i + j] = kw[j]

-----------------------------------------------------------------------------
(* config.py: filter criteria (defaults) *)
FILTER_MIN_YEAR == 2019
FILTER_MAX_YEAR == 2021
FILTER_MIN_PRICE == 120000000
FILTER_MAX_PRICE == 190000000
FILTER_MAX_KM == 60000
FILTER_TRANSMISSION == <<"m", "a", "n", "u", "a", "l">>
FILTER_COLOR == <<"p", "u", "t", "i", "h">>

(* matcher.py: class attributes *)
AVANZA_KEYWORDS == <<
    <<"a", "v", "a", "n", "z", "a">>,
    <<"v", "e", "l", "o", "z">>,
    <<"a", "v", "a", "n", "s", "a">>,
    <<"a", "v", "n", "z", "a">> >>
NON_AVANZA_KEYWORDS == <<
    <<"i", "n", "n", "o", "v", "a">>,
    <<"f", "o", "r", "t", "u", "n", "e", "r">>,
    <<"r", "u", "s", "h">>,
    <<"c", "a", "l", "y", "a">>,
    <<"s", "i", "g", "r", "a">>,
    <<"x", "e", "n", "i", "a">>,
    <<"t", "e", "r", "i", "o", "s">>,
    <<"a", "y", "l", "a">>,
    <<"a", "g", "y", "a">>,
    <<"y", "a", "r", "i", "s">>,
    <<"v", "i", "o", "s">>,
    <<"c", "a", "m", "r", "y">>,
    <<"a", "l", "p", "h", "a", "r", "d">>,
    <<"x", "p", "a", "n", "d", "e", "r">>,
    <<"e", "r", "t", "i", "g", "a">>,
    <<"l", "i", "v", "i", "n", "a">>,
    <<"m", "o", "b", "i", "l", "i", "o">>,
    <<"b", "r", "v">>,
    <<"h", "r", "v">>,
    <<"c", "r", "v">> >>

(* is_avanza that accepts as soon as an Avanza keyword is present *)
is_avanza_include_wins(title, description) ==
    LET text == Lower(JoinTD(title, description))
    IN \E k \in DOMAIN AVANZA_KEYWORDS : Contains(text, AVANZA_KEYWORDS[k])

is_avanza(title, description) ==
    LET text == Lower(JoinTD(title, description))
        has_avanza == \E k \in DOMAIN AVANZA_KEYWORDS : Contains(text, AVANZA_KEYWORDS[k])
        has_non_avanza ==
            \E k \in DOMAIN NON_AVANZA_KEYWORDS : Contains(text, NON_AVANZA_KEYWORDS[k])
    IN has_avanza /\ ~has_non_avanza

(* check_year letting an absent year pass *)
check_year_absent_passes(year) ==
    IF IsNone(year) THEN TRUE
    ELSE FILTER_MIN_YEAR <= Val(year) /\ Val(year) <= FILTER_MAX_YEAR

check_year(year) ==
    IF IsNone(year) THEN FALSE
    ELSE FILTER_MIN_YEAR <= Val(year) /\ Val(year) <= FILTER_MAX_YEAR

check_price(price) ==
    IF IsNone(price) THEN FALSE
    ELSE FILTER_MIN_PRICE <= Val(price) /\ Val(price) <= FILTER_MAX_PRICE

(* check_km failing an absent kilometre reading *)
check_km_required(km) ==
    IF IsNone(km) THEN FALSE
    ELSE 0 <= Val(km) /\ Val(km) <= FILTER_MAX_KM

check_km(km) ==
    IF IsNone(km) THEN TRUE
    ELSE 0 <= Val(km) /\ Val(km) <= FILTER_MAX_KM

check_transmission(transmission) ==
    IF IsNone(transmission) THEN TRUE
    ELSE Lower(Val(transmission)) = Lower(FILTER_TRANSMISSION)

check_color(color) ==
    IF IsNone(color) THEN TRUE
    ELSE Contains(Lower(Val(color)), Lower(FILTER_COLOR))

-----------------------------------------------------------------------------
(* Texts used by the listing pool (tests/test_matcher.py fixtures) *)
TitleAvanzaG == <<"T", "o", "y", "o", "t", "a", " ", "A", "v", "a", "n", "z", "a", " ", "G", " ", "2", "0", "2", "0", " ", "M", "a", "n", "u", "a", "l", " ", "P", "u", "t", "i", "h">>
TitleInnova == <<"T", "o", "y", "o", "t", "a", " ", "I", "n", "n", "o", "v", "a", " ", "2", "0", "2", "0", " ", "M", "a", "n", "u", "a", "l">>
TitleVeloz2018 == <<"T", "o", "y", "o", "t", "a", " ", "A", "v", "a", "n", "z", "a", " ", "V", "e", "l", "o", "z", " ", "2", "0", "1", "8", " ", "M", "T">>
TitleMatic == <<"T", "o", "y", "o", "t", "a", " ", "A", "v", "a", "n", "z", "a", " ", "2", "0", "2", "1", " ", "M", "a", "t", "i", "c">>
TitleAvanza2019 == <<"T", "o", "y", "o", "t", "a", " ", "A", "v", "a", "n", "z", "a", " ", "2", "0", "1", "9", " ", "M", "a", "n", "u", "a", "l">>
TitleValid == <<"T", "o", "y", "o", "t", "a", " ", "A", "v", "a", "n", "z", "a", " ", "V", "e", "l", "o", "z", " ", "1", ".", "5", " ", "M", "T", " ", "2", "0", "2", "0", " ", "P", "u", "t", "i", "h">>
DescValid == <<"K", "o", "n", "d", "i", "s", "i", " ", "m", "u", "l", "u", "s", ",", " ", "p", "l", "a", "t", " ", "F", " ", "B", "o", "g", "o", "r">>
TitleJazz == <<"H", "o", "n", "d", "a", " ", "J", "a", "z", "z", " ", "2", "0", "2", "0">>
DescPlate == <<"B", " ", "1", "2", "3", "4", " ", "X", "Y", "Z">>
DescScenario == <<"p", "l", "a", "t", " ", "F", " ", "B", "o", "g", "o", "r">>
TextManual == <<"m", "a", "n", "u", "a", "l">>
TextManualCap == <<"M", "a", "n", "u", "a", "l">>
TextAutomatic == <<"a", "u", "t", "o", "m", "a", "t", "i", "c">>
TextPutih == <<"p", "u", "t", "i", "h">>
TextHitam == <<"H", "i", "t", "a", "m", " ", "M", "e", "t", "a", "l", "i", "k">>

-----------------------------------------------------------------------------
(* matcher.py: PLAT_PATTERNS, evaluated the way re.search evaluates them on  *)
(* the upper-cased text: leftmost match of the first pattern that matches.   *)
Whitespace == {" ", "\t", "\n"}
WordChars == UpperLetters \cup LowerLetters \cup Digits \cup {"_"}

WordAt(T, p) == p \in DOMAIN T /\ T[p] \in WordChars
(* \b at the gap before position p *)
Boundary(T, p) == WordAt(T, p - 1) # WordAt(T, p)
AllIn(T, from, to, S) == \A p \in from .. to : p \in DOMAIN T /\ T[p] \in S
LiteralAt(T, i, K) == \A j \in 1 .. Len(K) : (i + j - 1) \in DOMAIN T /\ T[i + j - 1] = K[j]

KW_PLAT == <<"P", "L", "A", "T">>
KW_NOPOL == <<"N", "O", "P", "O", "L">>

(* \bPLAT\s+([A-Z])\b and \bNOPOL\s+([A-Z])\b : position of the captured letter, 0 if no match at i *)
KeywordGroupAt(T, K, i) ==
    LET cands == {j \in (i + Len(K) + 1) .. Len(T) :
                     /\ AllIn(T, i + Len(K), j - 1, Whitespace)
                     /\ T[j] \in UpperLetters
                     /\ Boundary(T, j + 1)}
    IN IF Boundary(T, i) /\ LiteralAt(T, i, K) /\ cands # {}
       THEN CHOOSE j \in cands : TRUE
       ELSE 0

(* \b([A-Z])\s+\d{1,4}\s*[A-Z]{0,3}\b *)
PlateMatchAt(T, i) ==
    /\ i \in DOMAIN T
    /\ T[i] \in UpperLetters
    /\ Boundary(T, i)
    /\ \E s \in 1 .. (Len(T) - i) :
          /\ AllIn(T, i + 1, i + s, Whitespace)
          /\ \E k \in 1 .. 4 :
                /\ AllIn(T, i + s + 1, i + s + k, Digits)
                /\ \E w \in 0 .. (Len(T) - (i + s + k)) :
                      /\ AllIn(T, i + s + k + 1, i + s + k + w, Whitespace)
                      /\ \E n \in 0 .. 3 :
                            /\ AllIn(T, i + s + k + w + 1, i + s + k + w + n, UpperLetters)
                            /\ Boundary(T, i + s + k + w + n + 1)

(* \b([A-Z])-\d{1,4}\b *)
HyphenMatchAt(T, i) ==
    /\ i \in DOMAIN T
    /\ T[i] \in UpperLetters
    /\ Boundary(T, i)
    /\ (i + 1) \in DOMAIN T /\ T[i + 1] = "-"
    /\ \E k \in 1 .. 4 :
          /\ i + 1 + k <= Len(T)
          /\ AllIn(T, i + 2, i + 1 + k, Digits)
          /\ Boundary(T, i + k + 2)

Min(S) == CHOOSE x \in S : \A y \in S : x <= y

(* The letter captured by pattern number n (1..4) in T, or None *)
PatternSearch(T, n) ==
    LET starts ==
            CASE n = 1 -> {i \in DOMAIN T : KeywordGroupAt(T, KW_PLAT, i) # 0}
              [] n = 2 -> {i \in DOMAIN T : KeywordGroupAt(T, KW_NOPOL, i) # 0}
              [] n = 3 -> {i \in DOMAIN T : PlateMatchAt(T, i)}
              [] n = 4 -> {i \in DOMAIN T : HyphenMatchAt(T, i)}
    IN IF starts = {} THEN None
       ELSE LET i == Min(starts)
            IN CASE n = 1 -> Some(T[KeywordGroupAt(T, KW_PLAT, i)])
                 [] n = 2 -> Some(T[KeywordGroupAt(T, KW_NOPOL, i)])
                 [] n = 3 -> Some(T[i])
                 [] n = 4 -> Some(T[i])

NumPatterns == 4

(* detect_plat taking the leftmost match of any of the patterns *)
detect_plat_leftmost(title, description) ==
    LET text == Upper(JoinTD(title, description))
        At(i) == IF KeywordGroupAt(text, KW_PLAT, i) # 0
                 THEN Some(text[KeywordGroupAt(text, KW_PLAT, i)])
                 ELSE IF KeywordGroupAt(text, KW_NOPOL, i) # 0
                 THEN Some(text[KeywordGroupAt(text, KW_NOPOL, i)])
                 ELSE IF PlateMatchAt(text, i) \/ HyphenMatchAt(text, i) THEN Some(text[i])
                 ELSE None
        starts == {i \in DOMAIN text : ~IsNone(At(i))}
    IN IF starts = {} THEN "unknown" ELSE Val(At(Min(starts)))

(* detect_plat without the two keyword patterns (PLAT x, NOPOL x) *)
detect_plat_plate_numbers_only(title, description) ==
    LET text == Upper(JoinTD(title, description))
        hits == {n \in 3 .. NumPatterns : ~IsNone(PatternSearch(text, n))}
    IN IF hits = {} THEN "unknown" ELSE Val(PatternSearch(text, Min(hits)))

detect_plat(title, description) ==
    LET text == Upper(JoinTD(title, description))
        hits == {n \in 1 .. NumPatterns : ~IsNone(PatternSearch(text, n))}
    IN IF hits = {} THEN "unknown" ELSE Val(PatternSearch(text, Min(hits)))

-----------------------------------------------------------------------------
(* matcher.py: scoring, match, filter_listings *)
(* the score returned without min(100, max(0, ...)) *)
ClampScore_Unclamped(score) == score

ClampScore(score) == IF score > 100 THEN 100 ELSE IF score < 0 THEN 0 ELSE score

(* calculate_score without the bonus for the newer years *)
calculate_score_no_year_bonus(listing) ==
    LET plat_bonus == IF listing.plat = "F" THEN 30 ELSE 0
        km == listing.km
        km_bonus ==
            IF IsNone(km) THEN 0
            ELSE IF Val(km) < 20000 THEN 15
            ELSE IF Val(km) < 40000 THEN 10
            ELSE IF Val(km) < 60000 THEN 5
            ELSE 0
        price == listing.price
        price_bonus ==
            IF IsNone(price) THEN 0
            ELSE IF Val(price) > 180000000 THEN 0 - 5
            ELSE IF Val(price) < 140000000 THEN 5
            ELSE 0
    IN ClampScore(50 + plat_bonus + km_bonus + price_bonus)

calculate_score(listing) ==
    LET plat_bonus == IF listing.plat = "F" THEN 30 ELSE 0
        km == listing.km
        km_bonus ==
            IF IsNone(km) THEN 0
            ELSE IF Val(km) < 20000 THEN 15
            ELSE IF Val(km) < 40000 THEN 10
            ELSE IF Val(km) < 60000 THEN 5
            ELSE 0
        year == listing.year
        year_bonus ==
            IF IsNone(year) THEN 0
            ELSE IF Val(year) = 2021 THEN 10
            ELSE IF Val(year) = 2020 THEN 5
            ELSE 0
        price == listing.price
        price_bonus ==
            IF IsNone(price) THEN 0
            ELSE IF Val(price) > 180000000 THEN 0 - 5
            ELSE IF Val(price) < 140000000 THEN 5
            ELSE 0
    IN ClampScore(50 + plat_bonus + km_bonus + year_bonus + price_bonus)

(* enriched = listing.copy(); enriched['plat'] = ...; enriched['score'] = ... *)
Enrich(listing) ==
    LET with_plat == listing @@ [plat |-> detect_plat(listing.title, listing.description)]
    IN with_plat @@ [score |-> calculate_score(with_plat)]

(* match with the sixth check (color) enabled *)
match_with_color(listing) ==
    IF ~is_avanza(listing.title, listing.description) THEN <<FALSE, listing>>
    ELSE IF ~check_year(listing.year) THEN <<FALSE, listing>>
    ELSE IF ~check_price(listing.price) THEN <<FALSE, listing>>
    ELSE IF ~check_km(listing.km) THEN <<FALSE, listing>>
    ELSE IF ~check_transmission(listing.transmission) THEN <<FALSE, listing>>
    ELSE IF ~check_color(listing.color) THEN <<FALSE, listing>>
    ELSE <<TRUE, Enrich(listing)>>

(* match(listing) -> (is_match, enriched_listing); the color check is commented out *)
match(listing) ==
    IF ~is_avanza(listing.title, listing.description) THEN <<FALSE, listing>>
    ELSE IF ~check_year(listing.year) THEN <<FALSE, listing>>
    ELSE IF ~check_price(listing.price) THEN <<FALSE, listing>>
    ELSE IF ~check_km(listing.km) THEN <<FALSE, listing>>
    ELSE IF ~check_transmission(listing.transmission) THEN <<FALSE, listing>>
    ELSE <<TRUE, Enrich(listing)>>

(* a sort that puts a record before the records of equal score already placed *)
InsertByScoreDesc_BeforeEqual(sorted, x) ==
    LET k == Cardinality({i \in DOMAIN sorted : sorted[i].score > x.score})
    IN SubSeq(sorted, 1, k) \o <<x>> \o SubSeq(sorted, k + 1, Len(sorted))

(* list.sort(key=score, reverse=True): stable, equal scores keep input order *)
InsertByScoreDesc(sorted, x) ==
    LET k == Cardinality({i \in DOMAIN sorted : sorted[i].score >= x.score})
    IN SubSeq(sorted, 1, k) \o <<x>> \o SubSeq(sorted, k + 1, Len(sorted))

RECURSIVE SortByScoreDesc(_)
SortByScoreDesc(s) ==
    IF s = <<>> THEN <<>>
    ELSE InsertByScoreDesc(SortByScoreDesc(SubSeq(s, 1, Len(s) - 1)), s[Len(s)])

RECURSIVE MatchedOf(_)
MatchedOf(listings) ==
    IF listings = <<>> THEN <<>>
    ELSE LET m == match(Head(listings))
         IN (IF m[1] THEN <<m[2]>> ELSE <<>>) \o MatchedOf(Tail(listings))

(* filter_listings without the final sort: matches in input order *)
filter_listings_unsorted(listings) == MatchedOf(listings)

filter_listings(listings) == SortByScoreDesc(MatchedOf(listings))

-----------------------------------------------------------------------------
(* Listing records as the fetchers and the test fixtures build them *)
Listing(id, src, title, desc, price, year, km, trans, color, url) ==
    [listing_id |-> id, source |-> src, title |-> title, description |-> desc,
     price |-> price, year |-> year, km |-> km, transmission |-> trans,
     color |-> color, url |-> url]

(* tests/test_matcher.py: sample_listings *)
Sample1 == Listing("1", None, TitleAvanzaG, <<>>, Some(150000000), Some(2020), Some(30000),
                   Some(TextManual), None, None)
Sample2 == Listing("2", None, TitleInnova, <<>>, Some(280000000), Some(2020), Some(25000),
                   Some(TextManual), None, None)
Sample3 == Listing("3", None, TitleVeloz2018, <<>>, Some(140000000), Some(2018), Some(50000),
                   Some(TextManual), None, None)
Sample4 == Listing("4", None, TitleMatic, <<>>, Some(170000000), Some(2021), Some(20000),
                   Some(TextAutomatic), None, None)
Sample5 == Listing("5", None, TitleAvanza2019, <<>>, Some(130000000), Some(2019), Some(45000),
                   Some(TextManual), None, None)
sample_listings == <<Sample1, Sample2, Sample3, Sample4, Sample5>>

(* tests/test_matcher.py: sample_valid_listing *)
sample_valid_listing ==
    Listing("12345", Some("olx"), TitleValid, DescValid, Some(160000000), Some(2020),
            Some(35000), Some(TextManual), Some(TextPutih), Some("https://olx.co.id/item/12345"))

-----------------------------------------------------------------------------
(* Bounds of the model *)
TicksPerHour == 2        \* clock resolution: one tick is 60 / TicksPerHour minutes
MaxTicks == 2            \* ticks the clock may advance
MaxCap == 2              \* largest configured MAX_NOTIFICATIONS_PER_HOUR
MaxOps == 3              \* store calls in one run of the store specification
MaxDays == 1             \* largest retention argument of cleanup_old_data
MaxChecks == 2           \* poll cycles in one run of the bot specification
MaxBatch == 2            \* longest fetched batch
MaxAppends == 2          \* keywords appended to one text (model-detection specification)

HoursPerDay == 24
TicksPerDay == HoursPerDay * TicksPerHour
OneHour == TicksPerHour                       \* timedelta(hours=1)
(* the run starts at 23:00 UTC of day 1 and may cross midnight UTC *)
StartClock == TicksPerDay + 23 * TicksPerHour
(* local time zone of the host as an offset from UTC: UTC-5, UTC, UTC+7 (WIB) *)
TimeZones == {0 - 5 * TicksPerHour, 0, 7 * TicksPerHour}

(* config.py *)
MAX_ERROR_NOTIFICATIONS_PER_HOUR == 1

VARIABLES
    clock,                  \* the instant, in ticks since 00:00 UTC of day 0
    tz,                     \* offset of the host's local time from UTC, in ticks
    max_notifications_per_hour,   \* config.MAX_NOTIFICATIONS_PER_HOUR (from the environment)
    seen_listings,          \* table seen_listings, rows in rowid order
    notification_log,       \* table notification_log
    error_log,              \* table error_log
    ret,                    \* value returned by the last store call that returns one
    ops,                    \* store calls made so far (store specification)
    marked,                 \* history: the calls of mark_listing_seen [listing_id, source, url]
    sent,                   \* history: the sink's listing invocations [listing_id, source, ok]
    alerts,                 \* history: error alerts the sink accepted [error_type, at]
    offered,                \* history: the error types notify_error was called with
    fault,                  \* what went wrong in the current cycle, "none" if nothing
    polled,                 \* history: the sources whose fetch_listings the last cycle called
    pc,                     \* position of the poll loop
    check_count,            \* MobilMonitorBot.check_count
    new_listings_count,     \* MobilMonitorBot.new_listings_count
    matched,                \* process_listings: the matched list being iterated
    idx,                    \* process_listings: index of the current listing in matched
    new_count,              \* process_listings: new_count
    success,                \* process_listings: result of notify_listing for the current listing
    batch,                  \* the input of filter_listings (matcher specification)
    result                  \* the value returned by filter_listings (matcher specification)

storeVars == <<seen_listings, notification_log, error_log>>
histVars == <<marked, sent, alerts>>
faultVars == <<fault, offered, polled>>
botVars == <<pc, check_count, new_listings_count, matched, idx, new_count, success>>
vars == <<clock, tz, max_notifications_per_hour, seen_listings, notification_log, error_log,
          ret, ops, marked, sent, alerts, offered, fault, polled, pc, check_count, new_listings_count,
          matched, idx,
          new_count, success, batch, result>>

-----------------------------------------------------------------------------
(* Time as the program sees it.  A timestamp text is <<date, separator,    *)
(* time of day>>: SQLite's CURRENT_TIMESTAMP is the UTC text               *)
(* 'YYYY-MM-DD HH:MM:SS', datetime.isoformat() of the naive local time is  *)
(* 'YYYY-MM-DDTHH:MM:SS.ffffff'.  The columns hold text and the parameter  *)
(* is text, so SQLite compares them byte by byte: the fixed-width date,    *)
(* then ' ' (0x20) against 'T' (0x54), then the time of day.               *)
DateOf(t) == t \div TicksPerDay
TimeOfDay(t) == t % TicksPerDay

CURRENT_TIMESTAMP == <<DateOf(clock), " ", TimeOfDay(clock)>>
(* datetime.now(): naive local time *)
now == clock + tz
isoformat(t) == <<DateOf(t), "T", TimeOfDay(t)>>

CharCode(c) == IF c = " " THEN 32 ELSE 84
TextLess(a, b) ==
    \/ a[1] < b[1]
    \/ a[1] = b[1] /\ CharCode(a[2]) < CharCode(b[2])
    \/ a[1] = b[1] /\ a[2] = b[2] /\ a[3] < b[3]

(* the instant a stored CURRENT_TIMESTAMP text denotes *)
InstantOf(text) == text[1] * TicksPerDay + text[3]

Count(table, P(_)) == Cardinality({i \in DOMAIN table : P(table[i])})
Select(table, P(_)) ==
    LET F[n \in 0 .. Len(table)] ==
            IF n = 0 THEN <<>>
            ELSE IF P(table[n]) THEN Append(F[n - 1], table[n]) ELSE F[n - 1]
    IN F[Len(table)]

-----------------------------------------------------------------------------
(* storage.py *)

(* is_listing_seen with the two query parameters bound in the wrong order *)
is_listing_seen_swapped(listing_id, source) ==
    \E i \in DOMAIN seen_listings :
        seen_listings[i].listing_id = source /\ seen_listings[i].source = listing_id

(* SELECT 1 FROM seen_listings WHERE listing_id = ? AND source = ? *)
is_listing_seen(listing_id, source) ==
    \E i \in DOMAIN seen_listings :
        seen_listings[i].listing_id = listing_id /\ seen_listings[i].source = source

(* mark_listing_seen as a plain INSERT into a table without the UNIQUE constraint *)
mark_listing_seen_plain_insert(listing_id, source, url, title, price) ==
    Append(seen_listings,
           [listing_id |-> listing_id, source |-> source, url |-> url,
            title |-> title, price |-> price, first_seen |-> CURRENT_TIMESTAMP])

(* mark_listing_seen as INSERT OR REPLACE: a conflicting row is deleted and re-inserted *)
mark_listing_seen_replace(listing_id, source, url, title, price) ==
    LET Other(row) == ~(row.listing_id = listing_id /\ row.source = source)
    IN Append(Select(seen_listings, Other),
              [listing_id |-> listing_id, source |-> source, url |-> url,
               title |-> title, price |-> price, first_seen |-> CURRENT_TIMESTAMP])

(* INSERT OR IGNORE INTO seen_listings ...: the new table.  UNIQUE(listing_id, source) *)
(* makes the insert a no-op when a row with the pair exists.                          *)
mark_listing_seen(listing_id, source, url, title, price) ==
    IF \E i \in DOMAIN seen_listings :
           seen_listings[i].listing_id = listing_id /\ seen_listings[i].source = source
    THEN seen_listings
    ELSE Append(seen_listings,
                [listing_id |-> listing_id, source |-> source, url |-> url,
                 title |-> title, price |-> price, first_seen |-> CURRENT_TIMESTAMP])

(* get_notification_count_last_hour without the "AND success = 1" filter *)
get_notification_count_any_result ==
    LET one_hour_ago == now - OneHour
        Hit(row) == TextLess(isoformat(one_hour_ago), row.sent_at)
    IN Count(notification_log, Hit)

(* SELECT COUNT FROM notification_log WHERE sent_at > ? AND success = 1 *)
get_notification_count_last_hour ==
    LET one_hour_ago == now - OneHour
        Hit(row) == TextLess(isoformat(one_hour_ago), row.sent_at) /\ row.success = 1
    IN Count(notification_log, Hit)

can_send_notification == get_notification_count_last_hour < max_notifications_per_hour

(* INSERT INTO notification_log (listing_id, success) VALUES (?, ?): the new table *)
log_notification(listing_id, ok) ==
    Append(notification_log,
           [sent_at |-> CURRENT_TIMESTAMP, listing_id |-> listing_id,
            success |-> IF ok THEN 1 ELSE 0])

(* SELECT COUNT FROM error_log WHERE error_type = ? AND notified_at > ? *)
can_send_error_notification(error_type) ==
    LET one_hour_ago == now - OneHour
        Hit(row) == row.error_type = error_type
                    /\ TextLess(isoformat(one_hour_ago), row.notified_at)
    IN Count(error_log, Hit) < MAX_ERROR_NOTIFICATIONS_PER_HOUR

(* INSERT INTO error_log (error_type, error_message) VALUES (?, ?): the new table *)
log_error_notification(error_type, error_message) ==
    Append(error_log,
           [error_type |-> error_type, error_message |-> error_message,
            notified_at |-> CURRENT_TIMESTAMP])

(* cleanup_old_data: the rows each DELETE leaves and the number it removes *)
CleanupCutoff(days) == now - days * TicksPerDay
CleanupKeepsNotification(days, row) == ~TextLess(row.sent_at, isoformat(CleanupCutoff(days)))
CleanupKeepsError(days, row) == ~TextLess(row.notified_at, isoformat(CleanupCutoff(days)))

-----------------------------------------------------------------------------
(* Inputs *)
(* identities passed to the store: same id under two sources, two ids under one source *)
Identities == {<<"1", "olx">>, <<"1", "unknown">>, <<"5", "olx">>}
LoggedIds == {"1"}
ErrorTypes == {"fetch_error", "bot_crash"}
ErrorMessages == {"timeout"}
(* two different (url, title, price) payloads for the same identity *)
Payloads == {<<"https://olx.co.id/item/a", Some(TitleAvanzaG), Some(150000000)>>,
             <<"https://olx.co.id/item/b", None, Some(130000000)>>}

(* listing.get('source', 'unknown'), listing.get('url', '') *)
SourceOf(listing) == IF IsNone(listing.source) THEN "unknown" ELSE Val(listing.source)
UrlOf(listing) == IF IsNone(listing.url) THEN "" ELSE Val(listing.url)

-----------------------------------------------------------------------------
(* The store's operations as steps *)

Tick ==
    /\ clock < StartClock + MaxTicks
    /\ clock' = clock + 1
    /\ UNCHANGED <<faultVars, tz, max_notifications_per_hour,
                   storeVars, ret, ops, histVars, botVars,
                   batch, result>>

MarkListingSeen(listing_id, source, payload) ==
    /\ ops < MaxOps
    /\ seen_listings' = mark_listing_seen(listing_id, source, payload[1], payload[2], payload[3])
    /\ marked' = Append(marked, [listing_id |-> listing_id, source |-> source, url |-> payload[1]])
    /\ ops' = ops + 1
    /\ UNCHANGED <<faultVars, clock, tz, max_notifications_per_hour,
                   notification_log, error_log, ret,
                   sent, alerts, botVars, batch, result>>

LogNotification(listing_id, ok) ==
    /\ ops < MaxOps
    /\ notification_log' = log_notification(listing_id, ok)
    /\ ops' = ops + 1
    /\ UNCHANGED <<faultVars, clock, tz, max_notifications_per_hour,
                   seen_listings, error_log, ret,
                   histVars, botVars, batch, result>>

LogErrorNotification(error_type, error_message) ==
    /\ ops < MaxOps
    /\ error_log' = log_error_notification(error_type, error_message)
    /\ ops' = ops + 1
    /\ UNCHANGED <<faultVars, clock, tz, max_notifications_per_hour,
                   seen_listings, notification_log, ret,
                   histVars, botVars, batch, result>>

(* notify_error writing its error-log row whatever the sink answered *)
notify_error_logs_always(error_type, error_message, sink_ok) ==
    /\ offered' = Append(offered, error_type)
    /\ IF ~can_send_error_notification(error_type)
       THEN UNCHANGED <<error_log, alerts>>
       ELSE /\ error_log' = log_error_notification(error_type, error_message)
            /\ alerts' = IF sink_ok
                         THEN Append(alerts, [error_type |-> error_type, at |-> clock])
                         ELSE alerts

(* notifier_telegram.py notify_error: gate, send, log only when the send succeeded *)
notify_error(error_type, error_message, sink_ok) ==
    /\ offered' = Append(offered, error_type)
    /\ IF ~can_send_error_notification(error_type)
       THEN UNCHANGED <<error_log, alerts>>
       ELSE IF sink_ok
            THEN /\ error_log' = log_error_notification(error_type, error_message)
                 /\ alerts' = Append(alerts, [error_type |-> error_type, at |-> clock])
            ELSE UNCHANGED <<error_log, alerts>>

NotifyError(error_type, error_message, sink_ok) ==
    /\ ops < MaxOps
    /\ notify_error(error_type, error_message, sink_ok)
    /\ ops' = ops + 1
    /\ UNCHANGED <<fault, polled, clock, tz, max_notifications_per_hour, seen_listings, notification_log,
                   ret, marked, sent, botVars, batch, result>>

(* cleanup_old_data(days): two DELETEs, returns the sum of their rowcounts *)
CleanupOldData(days) ==
    LET KeepN(row) == CleanupKeepsNotification(days, row)
        KeepE(row) == CleanupKeepsError(days, row)
        deleted_notifs == Len(notification_log) - Count(notification_log, KeepN)
        deleted_errors == Len(error_log) - Count(error_log, KeepE)
    IN /\ ops < MaxOps
       /\ notification_log' = Select(notification_log, KeepN)
       /\ error_log' = Select(error_log, KeepE)
       /\ ret' = Some(deleted_notifs + deleted_errors)
       /\ ops' = ops + 1
       /\ UNCHANGED <<faultVars, clock, tz, max_notifications_per_hour, seen_listings, histVars,
                      botVars, batch, result>>

-----------------------------------------------------------------------------
(* main.py: the poll loop.  pc: "idle" (top of while self.running), "loop"   *)
(* (top of the for loop of process_listings), "notify" (about to call        *)
(* notifier.notify_listing), "log" (the sink returned, log_notification is   *)
(* next), "mark" (notify_listing returned, mark_listing_seen is next),       *)
(* "sleep" (run_check returned).  self.running is never assigned after       *)
(* __init__ and is not a variable.                                           *)

(* The fetchers the bot constructs in __init__ and calls in run_check, by their *)
(* SOURCE_NAME, and the sources that have a fetcher and a search URL in config  *)
Fetchers == {"olx"}
ConfiguredSources == {"olx", "mobil123", "carmudi", "jualo"}

(* What fetch_listings may return: batches over a pool of listings, repeats allowed *)
BotPool == {Sample1, Sample5, Sample2}
RECURSIVE SeqsUpTo(_, _)
SeqsUpTo(S, n) ==
    IF n = 0 THEN {<<>>}
    ELSE LET shorter == SeqsUpTo(S, n - 1)
         IN shorter \cup {Append(s, x) : s \in shorter, x \in S}
FetchedBatches == SeqsUpTo(BotPool, MaxBatch) \ {<<>>}
(* matcher.filter_listings(listings), tabulated over the batches *)
FilteredBatch == [b \in FetchedBatches |-> filter_listings(b)]

(* run_check: check_count += 1; fetch; a non-empty batch enters process_listings *)
RunCheckFetch(listings) ==
    /\ pc = "idle"
    /\ check_count < MaxChecks
    /\ listings # <<>>
    /\ check_count' = check_count + 1
    /\ matched' = FilteredBatch[listings]     \* listings itself is only logged afterwards
    /\ idx' = 1
    /\ new_count' = 0
    /\ pc' = "loop"
    /\ polled' = Fetchers
    /\ UNCHANGED <<fault, offered, clock, tz, max_notifications_per_hour,
                   storeVars, ret, ops, histVars,
                   new_listings_count, success, batch, result>>

(* run_check taking an empty fetch that followed exhausted retries for a fetch error *)
RunCheckEmpty_AsFetchError(exhausted) ==
    /\ pc = "idle"
    /\ check_count < MaxChecks
    /\ check_count' = check_count + 1
    /\ polled' = Fetchers
    /\ fault' = IF exhausted THEN "fetch_exhausted" ELSE "none"
    /\ IF exhausted
       THEN \E msg \in ErrorMessages : notify_error("fetch_error", msg, TRUE)
       ELSE UNCHANGED <<offered, error_log, alerts>>
    /\ pc' = "sleep"
    /\ UNCHANGED <<clock, tz, max_notifications_per_hour, seen_listings, notification_log,
                   ret, ops, marked, sent, new_listings_count, matched, idx, new_count,
                   success, batch, result>>

(* run_check: fetch returned an empty list: "if not listings: return".  The list is  *)
(* empty when the site has no results and also when fetch_page gave up after its    *)
(* retries (exhausted): fetch_listings returns [] in both cases.                    *)
RunCheckEmpty(exhausted) ==
    /\ pc = "idle"
    /\ check_count < MaxChecks
    /\ check_count' = check_count + 1
    /\ polled' = Fetchers
    /\ fault' = IF exhausted THEN "fetch_exhausted" ELSE "none"
    /\ pc' = "sleep"
    /\ UNCHANGED <<offered, clock, tz, max_notifications_per_hour, storeVars, ret, ops, histVars,
                   new_listings_count, matched, idx, new_count, success, batch, result>>

(* run_check: fetch raised: except Exception -> notifier.notify_error('fetch_error', ...) *)
RunCheckFetchRaises(sink_ok) ==
    /\ pc = "idle"
    /\ check_count < MaxChecks
    /\ check_count' = check_count + 1
    /\ \E msg \in ErrorMessages : notify_error("fetch_error", msg, sink_ok)
    /\ polled' = Fetchers
    /\ fault' = "fetch_raised"
    /\ pc' = "sleep"
    /\ UNCHANGED <<clock, tz, max_notifications_per_hour, seen_listings, notification_log,
                   ret, ops, marked, sent, new_listings_count, matched, idx, new_count,
                   success, batch, result>>

(* process_listings returned (loop exhausted or break); run_check adds new_count *)
(* (the locals of the finished call are dead and are reset) *)
EndProcess ==
    /\ new_listings_count' = new_listings_count + new_count
    /\ pc' = "sleep"
    /\ matched' = <<>>
    /\ idx' = 1
    /\ new_count' = 0
    /\ success' = FALSE
    /\ UNCHANGED <<faultVars, clock, tz, max_notifications_per_hour,
                   storeVars, ret, ops, histVars,
                   check_count, batch, result>>

LoopDone ==
    /\ pc = "loop"
    /\ idx > Len(matched)
    /\ EndProcess

(* if storage.is_listing_seen(listing_id, source): continue *)
LoopSkipSeen ==
    /\ pc = "loop"
    /\ idx <= Len(matched)
    /\ is_listing_seen(matched[idx].listing_id, SourceOf(matched[idx]))
    /\ idx' = idx + 1
    /\ UNCHANGED <<faultVars, clock, tz, max_notifications_per_hour,
                   storeVars, ret, ops, histVars,
                   pc, check_count, new_listings_count, matched, new_count, success, batch,
                   result>>

(* the loop skipping a listing that finds the quota exhausted, and going on *)
LoopBreak_SkipOnly ==
    /\ pc = "loop"
    /\ idx <= Len(matched)
    /\ ~is_listing_seen(matched[idx].listing_id, SourceOf(matched[idx]))
    /\ ~can_send_notification
    /\ idx' = idx + 1
    /\ UNCHANGED <<faultVars, clock, tz, max_notifications_per_hour,
                   storeVars, ret, ops, histVars,
                   pc, check_count, new_listings_count, matched, new_count, success, batch,
                   result>>

(* the loop marking the listing that finds the quota exhausted as seen, then ending *)
LoopBreak_MarksSeen ==
    /\ pc = "loop"
    /\ idx <= Len(matched)
    /\ ~is_listing_seen(matched[idx].listing_id, SourceOf(matched[idx]))
    /\ ~can_send_notification
    /\ seen_listings' = mark_listing_seen(matched[idx].listing_id, SourceOf(matched[idx]),
                                          UrlOf(matched[idx]), Some(matched[idx].title),
                                          matched[idx].price)
    /\ new_listings_count' = new_listings_count + new_count
    /\ pc' = "sleep"
    /\ matched' = <<>>
    /\ idx' = 1
    /\ new_count' = 0
    /\ success' = FALSE
    /\ UNCHANGED <<faultVars, clock, tz, max_notifications_per_hour, notification_log,
                   error_log, ret, ops, histVars, check_count, batch, result>>

(* if not storage.can_send_notification(): break *)
LoopBreak ==
    /\ pc = "loop"
    /\ idx <= Len(matched)
    /\ ~is_listing_seen(matched[idx].listing_id, SourceOf(matched[idx]))
    /\ ~can_send_notification
    /\ EndProcess

LoopNew ==
    /\ pc = "loop"
    /\ idx <= Len(matched)
    /\ ~is_listing_seen(matched[idx].listing_id, SourceOf(matched[idx]))
    /\ can_send_notification
    /\ pc' = "notify"
    /\ UNCHANGED <<faultVars, clock, tz, max_notifications_per_hour,
                   storeVars, ret, ops, histVars,
                   check_count, new_listings_count, matched, idx, new_count, success, batch,
                   result>>

(* notify_listing: its own rate-limit gate, then send_photo / send_message (the sink) *)
NotifySend(sink_ok) ==
    /\ pc = "notify"
    /\ IF ~can_send_notification
       THEN /\ success' = FALSE
            /\ pc' = "mark"
            /\ UNCHANGED sent
       ELSE /\ sent' = Append(sent, [listing_id |-> matched[idx].listing_id,
                                      source |-> SourceOf(matched[idx]),
                                      ok |-> sink_ok])
            /\ success' = sink_ok
            /\ pc' = "log"
    /\ UNCHANGED <<faultVars, clock, tz, max_notifications_per_hour,
                   storeVars, ret, ops, marked, alerts,
                   check_count, new_listings_count, matched, idx, new_count, batch, result>>

(* notify_listing writing its log row only when the sink accepted the message *)
NotifyLog_SkipOnFailure ==
    /\ pc = "log"
    /\ notification_log' = IF success THEN log_notification(matched[idx].listing_id, success)
                           ELSE notification_log
    /\ pc' = "mark"
    /\ UNCHANGED <<faultVars, clock, tz, max_notifications_per_hour,
                   seen_listings, error_log, ret, ops,
                   histVars, check_count, new_listings_count, matched, idx, new_count,
                   success, batch, result>>

(* notify_listing: storage.log_notification(listing_id, success); return success *)
NotifyLog ==
    /\ pc = "log"
    /\ notification_log' = log_notification(matched[idx].listing_id, success)
    /\ pc' = "mark"
    /\ UNCHANGED <<faultVars, clock, tz, max_notifications_per_hour,
                   seen_listings, error_log, ret, ops,
                   histVars, check_count, new_listings_count, matched, idx, new_count,
                   success, batch, result>>

(* the loop body marking a listing seen only when its notification succeeded *)
MarkSeenStep_OnlyOnSuccess ==
    /\ pc = "mark"
    /\ seen_listings' = IF success
                        THEN mark_listing_seen(matched[idx].listing_id, SourceOf(matched[idx]),
                                               UrlOf(matched[idx]), Some(matched[idx].title),
                                               matched[idx].price)
                        ELSE seen_listings
    /\ marked' = marked
    /\ new_count' = IF success THEN new_count + 1 ELSE new_count
    /\ idx' = idx + 1
    /\ success' = FALSE
    /\ pc' = "loop"
    /\ UNCHANGED <<faultVars, clock, tz, max_notifications_per_hour,
                   notification_log, error_log, ret,
                   ops, sent, alerts, check_count, new_listings_count, matched, batch, result>>

(* storage.mark_listing_seen(...); if success: new_count += 1; time.sleep(1); next listing *)
MarkSeenStep ==
    /\ pc = "mark"
    /\ seen_listings' = mark_listing_seen(matched[idx].listing_id, SourceOf(matched[idx]),
                                          UrlOf(matched[idx]), Some(matched[idx].title),
                                          matched[idx].price)
    /\ marked' = Append(marked, [listing_id |-> matched[idx].listing_id,
                                  source |-> SourceOf(matched[idx]),
                                  url |-> UrlOf(matched[idx])])
    /\ new_count' = IF success THEN new_count + 1 ELSE new_count
    /\ idx' = idx + 1
    /\ success' = FALSE            \* dead until the next notify_listing assigns it
    /\ pc' = "loop"
    /\ UNCHANGED <<faultVars, clock, tz, max_notifications_per_hour,
                   notification_log, error_log, ret,
                   ops, sent, alerts, check_count, new_listings_count, matched, batch, result>>

(* run: time.sleep(CHECK_INTERVAL_SECONDS), back to the top of the while loop *)
Sleep ==
    /\ pc = "sleep"
    /\ pc' = "idle"
    /\ fault' = "none"              \* the next cycle starts without a fault
    /\ UNCHANGED <<offered, polled, clock, tz, max_notifications_per_hour, storeVars, ret, ops, histVars,
                   check_count, new_listings_count, matched, idx, new_count, success, batch,
                   result>>

-----------------------------------------------------------------------------
(* Faults.  The store's methods catch nothing (the mark_listing_seen try has only *)
(* a finally), notify_listing and process_listings catch nothing, so an           *)
(* sqlite3.Error raised by a store call inside a cycle reaches the                *)
(* "except Exception" of run_check.  KeyboardInterrupt is not an Exception: it    *)
(* passes run_check and reaches "except KeyboardInterrupt" of run.                *)
(* pc "stopped": run has left its while loop (shutdown).                          *)

(* a store call is being made: is_listing_seen / can_send_notification at the top *)
(* of the loop body, can_send_notification inside notify_listing, log_notification*)
(* after the sink returned, mark_listing_seen                                     *)
InStoreCall ==
    \/ pc = "loop" /\ idx <= Len(matched)
    \/ pc \in {"notify", "log", "mark"}

(* the store call raises; run_check: except Exception -> notify_error('fetch_error'), *)
(* whose own store calls succeed; run_check returns, new_count is lost               *)
StoreRaises(sink_ok) ==
    /\ InStoreCall
    /\ fault' = "store_raised"
    /\ \E msg \in ErrorMessages : notify_error("fetch_error", msg, sink_ok)
    /\ pc' = "sleep"
    /\ matched' = <<>>
    /\ idx' = 1
    /\ new_count' = 0
    /\ success' = FALSE
    /\ UNCHANGED <<polled, clock, tz, max_notifications_per_hour, seen_listings, notification_log,
                   ret, ops, marked, sent, check_count, new_listings_count, batch, result>>

(* the store call raises and can_send_error_notification raises too inside the    *)
(* handler of run_check: the second exception leaves run_check; run: except       *)
(* Exception -> notify_error('bot_crash'), which works if the store recovers and  *)
(* raises out of run otherwise; finally shutdown                                  *)
StoreRaisesAgain(sink_ok, store_recovers) ==
    /\ InStoreCall
    /\ fault' = "store_raised"
    /\ offered' = offered \o <<"fetch_error", "bot_crash">>
    /\ IF store_recovers /\ can_send_error_notification("bot_crash") /\ sink_ok
       THEN /\ \E msg \in ErrorMessages :
                  error_log' = log_error_notification("bot_crash", msg)
            /\ alerts' = Append(alerts, [error_type |-> "bot_crash", at |-> clock])
       ELSE UNCHANGED <<error_log, alerts>>
    /\ pc' = "stopped"
    /\ matched' = <<>>
    /\ idx' = 1
    /\ new_count' = 0
    /\ success' = FALSE
    /\ UNCHANGED <<polled, clock, tz, max_notifications_per_hour, seen_listings, notification_log,
                   ret, ops, marked, sent, check_count, new_listings_count, batch, result>>

(* Ctrl+C: KeyboardInterrupt is raised wherever the main thread stands; run:      *)
(* except KeyboardInterrupt -> log, finally shutdown                              *)
Interrupt ==
    /\ pc \in {"idle", "loop", "notify", "log", "mark", "sleep"}
    /\ fault' = "interrupted"
    /\ pc' = "stopped"
    /\ matched' = <<>>
    /\ idx' = 1
    /\ new_count' = 0
    /\ success' = FALSE
    /\ UNCHANGED <<polled, clock, tz, max_notifications_per_hour, storeVars, ret, ops, histVars,
                   offered, check_count, new_listings_count, batch, result>>

-----------------------------------------------------------------------------
(* Initial states *)
InitStore ==
    /\ clock = StartClock
    /\ tz \in TimeZones
    /\ max_notifications_per_hour \in 1 .. MaxCap
    /\ seen_listings = <<>>
    /\ notification_log = <<>>
    /\ error_log = <<>>
    /\ ret = None
    /\ ops = 0
    /\ marked = <<>>
    /\ sent = <<>>
    /\ alerts = <<>>
    /\ offered = <<>>
    /\ fault = "none"
    /\ polled = {}

InitBot ==
    /\ check_count = 0
    /\ new_listings_count = 0
    /\ matched = <<>>
    /\ idx = 1
    /\ new_count = 0
    /\ success = FALSE
    /\ batch = <<>>
    /\ result = None

(* The bot: MobilMonitorBot.run over a fresh database *)
Init == InitStore /\ InitBot /\ pc = "idle"

Next ==
    \/ Tick
    \/ \E b \in FetchedBatches : RunCheckFetch(b)
    \/ \E exhausted \in BOOLEAN : RunCheckEmpty(exhausted)
    \/ \E sink_ok \in BOOLEAN : RunCheckFetchRaises(sink_ok)
    \/ LoopDone
    \/ LoopSkipSeen
    \/ LoopBreak
    \/ LoopNew
    \/ \E sink_ok \in BOOLEAN : NotifySend(sink_ok)
    \/ NotifyLog
    \/ MarkSeenStep
    \/ Sleep

Spec == Init /\ [][Next]_vars

(* The bot with a store that may fail and an operator who may interrupt *)
NextFault ==
    \/ Tick
    \/ \E b \in FetchedBatches : RunCheckFetch(b)
    \/ \E exhausted \in BOOLEAN : RunCheckEmpty(exhausted)
    \/ \E sink_ok \in BOOLEAN : RunCheckFetchRaises(sink_ok)
    \/ LoopDone
    \/ LoopSkipSeen
    \/ LoopBreak
    \/ LoopNew
    \/ \E sink_ok \in BOOLEAN : NotifySend(sink_ok)
    \/ NotifyLog
    \/ MarkSeenStep
    \/ Sleep
    \/ \E sink_ok \in BOOLEAN : StoreRaises(sink_ok)
    \/ \E sink_ok \in BOOLEAN, store_recovers \in BOOLEAN :
          StoreRaisesAgain(sink_ok, store_recovers)
    \/ Interrupt

SpecFault == Init /\ [][NextFault]_vars

(* The store alone: any sequence of calls of its operations *)
InitStoreSpec == InitStore /\ InitBot /\ pc = "store"

NextStore ==
    \/ Tick
    \/ \E k \in Identities, p \in Payloads : MarkListingSeen(k[1], k[2], p)
    \/ \E id \in LoggedIds, ok \in BOOLEAN : LogNotification(id, ok)
    \/ \E t \in ErrorTypes, msg \in ErrorMessages : LogErrorNotification(t, msg)
    \/ \E t \in ErrorTypes, msg \in ErrorMessages, ok \in BOOLEAN : NotifyError(t, msg, ok)
    \/ \E days \in 0 .. MaxDays : CleanupOldData(days)

SpecStore == InitStoreSpec /\ [][NextStore]_vars

-----------------------------------------------------------------------------
(* The matcher alone: filter_listings applied to one input batch *)
MatchTexts == {<<TitleAvanzaG, <<>>>>, <<TitleInnova, <<>>>>, <<TitleValid, DescValid>>,
               <<TitleJazz, DescPlate>>}
MatchYears == {None, Some(2018), Some(2019), Some(2021), Some(2022)}
MatchPrices == {None, Some(119999999), Some(120000000), Some(190000000), Some(190000001)}
MatchKms == {None, Some(0 - 1), Some(0), Some(60000), Some(60001)}
MatchTransmissions == {None, Some(TextManual), Some(TextManualCap), Some(TextAutomatic)}
MatchColors == {None, Some(TextPutih), Some(TextHitam)}
SingleListings ==
    {Listing("9", Some("olx"), t[1], t[2], p, y, k, tr, c, None) :
        t \in MatchTexts, p \in MatchPrices, y \in MatchYears, k \in MatchKms,
        tr \in MatchTransmissions, c \in MatchColors}
(* the scenario record: sample_valid_listing reduced to the six fields that matter, *)
(* its description shortened to 'plat F Bogor'                                     *)
ScenarioRecord ==
    Listing(None, None, TitleValid, DescScenario, Some(160000000), Some(2020), Some(35000),
            Some(TextManual), None, None)
(* a record that passes with the score of Sample5 (60) and differs from it *)
SampleTie ==
    Listing("6", None, TitleAvanza2019, <<>>, Some(150000000), Some(2019), Some(35000),
            Some(TextManual), None, None)
MatchPool == {Sample1, Sample4, Sample5, SampleTie, sample_valid_listing}
MatchInputs ==
    {<<r>> : r \in SingleListings} \cup SeqsUpTo(MatchPool, MaxBatch)
        \cup {sample_listings, <<ScenarioRecord>>}

InitMatch ==
    /\ clock = StartClock
    /\ tz = 0
    /\ max_notifications_per_hour = 1
    /\ seen_listings = <<>>
    /\ notification_log = <<>>
    /\ error_log = <<>>
    /\ ret = None
    /\ ops = 0
    /\ marked = <<>>
    /\ sent = <<>>
    /\ alerts = <<>>
    /\ offered = <<>>
    /\ fault = "none"
    /\ polled = {}
    /\ check_count = 0
    /\ new_listings_count = 0
    /\ matched = <<>>
    /\ idx = 1
    /\ new_count = 0
    /\ success = FALSE
    /\ batch \in MatchInputs
    /\ result = None
    /\ pc = "match"

FilterListings ==
    /\ pc = "match"
    /\ result' = Some(filter_listings(batch))
    /\ pc' = "matched"
    /\ UNCHANGED <<faultVars, clock, tz, max_notifications_per_hour,
                   storeVars, ret, ops, histVars,
                   check_count, new_listings_count, matched, idx, new_count, success, batch>>

NextMatch == FilterListings

SpecMatch == InitMatch /\ [][NextMatch]_vars

-----------------------------------------------------------------------------
(* The scorer alone: calculate_score applied to one record (the tests call it with *)
(* records that carry plat, km, year and price)                                    *)
ScorePlats == {"F", "B", "unknown"}
ScoreKms == {None, Some(19999), Some(20000), Some(39999), Some(40000), Some(59999), Some(60000)}
ScoreYears == {None, Some(2019), Some(2020), Some(2021), Some(2022)}
ScorePrices == {None, Some(139999999), Some(140000000), Some(180000000), Some(180000001)}
ScoreInputs ==
    {[plat |-> pl, km |-> k, year |-> y, price |-> p] :
        pl \in ScorePlats, k \in ScoreKms, y \in ScoreYears, p \in ScorePrices}

InitScore ==
    /\ clock = StartClock
    /\ tz = 0
    /\ max_notifications_per_hour = 1
    /\ seen_listings = <<>>
    /\ notification_log = <<>>
    /\ error_log = <<>>
    /\ ret = None
    /\ ops = 0
    /\ marked = <<>>
    /\ sent = <<>>
    /\ alerts = <<>>
    /\ offered = <<>>
    /\ fault = "none"
    /\ polled = {}
    /\ check_count = 0
    /\ new_listings_count = 0
    /\ matched = <<>>
    /\ idx = 1
    /\ new_count = 0
    /\ success = FALSE
    /\ batch \in {<<r>> : r \in ScoreInputs}
    /\ result = None
    /\ pc = "score"

CalculateScore ==
    /\ pc = "score"
    /\ result' = Some(calculate_score(batch[1]))
    /\ pc' = "scored"
    /\ UNCHANGED <<faultVars, clock, tz, max_notifications_per_hour, storeVars, ret, ops,
                   histVars, check_count, new_listings_count, matched, idx, new_count,
                   success, batch>>

NextScore == CalculateScore

SpecScore == InitScore /\ [][NextScore]_vars

-----------------------------------------------------------------------------
(* The model detector alone: is_avanza applied to a text, then to the text with *)
(* keywords appended to its description.  batch holds the one (title,           *)
(* description) pair, ret the last keyword appended, result the last verdict.   *)
AvanzaTexts == {<<TitleAvanzaG, <<>>>>, <<TitleInnova, <<>>>>, <<TitleValid, DescValid>>,
                <<TitleJazz, DescPlate>>}
(* words appended: every include and exclude keyword, one of each in capitals *)
AppendWords ==
    Range(AVANZA_KEYWORDS) \cup Range(NON_AVANZA_KEYWORDS)
        \cup {Upper(AVANZA_KEYWORDS[1]), Upper(NON_AVANZA_KEYWORDS[1])}

InitAvanza ==
    /\ clock = StartClock
    /\ tz = 0
    /\ max_notifications_per_hour = 1
    /\ seen_listings = <<>>
    /\ notification_log = <<>>
    /\ error_log = <<>>
    /\ ret = None
    /\ ops = 0
    /\ marked = <<>>
    /\ sent = <<>>
    /\ alerts = <<>>
    /\ offered = <<>>
    /\ fault = "none"
    /\ polled = {}
    /\ check_count = 0
    /\ new_listings_count = 0
    /\ matched = <<>>
    /\ idx = 1
    /\ new_count = 0
    /\ success = FALSE
    /\ batch \in {<<[title |-> t[1], description |-> t[2]]>> : t \in AvanzaTexts}
    /\ result = None
    /\ pc = "text"

IsAvanza ==
    /\ pc = "text"
    /\ result' = Some(is_avanza(batch[1].title, batch[1].description))
    /\ pc' = "verdict"
    /\ UNCHANGED <<faultVars, clock, tz, max_notifications_per_hour, storeVars, ret, ops,
                   histVars, check_count, new_listings_count, matched, idx, new_count,
                   success, batch>>

(* the same listing with one more word in its description, and is_avanza on it *)
IsAvanzaAppended(word) ==
    LET description == batch[1].description \o <<" ">> \o word
    IN /\ pc = "verdict"
       /\ ops < MaxAppends
       /\ batch' = <<[title |-> batch[1].title, description |-> description]>>
       /\ ret' = Some(word)
       /\ result' = Some(is_avanza(batch[1].title, description))
       /\ ops' = ops + 1
       /\ UNCHANGED <<faultVars, clock, tz, max_notifications_per_hour, storeVars, histVars,
                      pc, check_count, new_listings_count, matched, idx, new_count, success>>

NextAvanza ==
    \/ IsAvanza
    \/ \E word \in AppendWords : IsAvanzaAppended(word)

SpecAvanza == InitAvanza /\ [][NextAvanza]_vars

-----------------------------------------------------------------------------
(* The plate detector alone: detect_plat applied to one (title, description).   *)
(* A text is 'Avanza' followed by a keyword phrase ('plat X', 'Nopol X') and/or *)
(* a plate number ('Y 1234 XYZ', 'Y-1234'), in either order, both in the title  *)
(* or the second part in the description.                                       *)
TextAvanza == <<"A", "v", "a", "n", "z", "a">>
PlatKeywords == {<<"p", "l", "a", "t">>, <<"N", "o", "p", "o", "l">>}
PlatNumbers == {<<" ", "1", "2", "3", "4", " ", "X", "Y", "Z">>, <<"-", "1", "2", "3", "4">>}
KeywordPhrases ==
    {None} \cup {Some([text |-> kw \o <<" ", x>>, letter |-> x]) :
                    kw \in PlatKeywords, x \in {"F", "b"}}
PlateNumbers ==
    {None} \cup {Some([text |-> <<y>> \o digits, letter |-> y]) :
                    digits \in PlatNumbers, y \in {"D", "B"}}
PartText(part) == IF IsNone(part) THEN <<>> ELSE Val(part).text
Spaced(a, b) == IF a = <<>> THEN b ELSE IF b = <<>> THEN a ELSE a \o <<" ">> \o b
PlatInput(keyword, plate, plate_first, split) ==
    LET first == IF plate_first THEN PartText(plate) ELSE PartText(keyword)
        second == IF plate_first THEN PartText(keyword) ELSE PartText(plate)
    IN [title |-> IF split THEN Spaced(TextAvanza, first)
                  ELSE Spaced(TextAvanza, Spaced(first, second)),
        description |-> IF split THEN second ELSE <<>>,
        keyword |-> keyword, plate |-> plate, plate_first |-> plate_first]
PlatInputs ==
    {PlatInput(k, n, pf, sp) :
        k \in KeywordPhrases, n \in PlateNumbers, pf \in BOOLEAN, sp \in BOOLEAN}

InitPlat ==
    /\ clock = StartClock
    /\ tz = 0
    /\ max_notifications_per_hour = 1
    /\ seen_listings = <<>>
    /\ notification_log = <<>>
    /\ error_log = <<>>
    /\ ret = None
    /\ ops = 0
    /\ marked = <<>>
    /\ sent = <<>>
    /\ alerts = <<>>
    /\ offered = <<>>
    /\ fault = "none"
    /\ polled = {}
    /\ check_count = 0
    /\ new_listings_count = 0
    /\ matched = <<>>
    /\ idx = 1
    /\ new_count = 0
    /\ success = FALSE
    /\ batch \in {<<r>> : r \in PlatInputs}
    /\ result = None
    /\ pc = "plat"

DetectPlat ==
    /\ pc = "plat"
    /\ result' = Some(detect_plat(batch[1].title, batch[1].description))
    /\ pc' = "detected"
    /\ UNCHANGED <<faultVars, clock, tz, max_notifications_per_hour, storeVars, ret, ops,
                   histVars, check_count, new_listings_count, matched, idx, new_count,
                   success, batch>>

NextPlat == DetectPlat

SpecPlat == InitPlat /\ [][NextPlat]_vars

-----------------------------------------------------------------------------
(* The bot running for ever: the store and the fetch keep working, the source    *)
(* keeps offering the same listings, and the clock runs far enough past midnight *)
(* for the rows of the day to leave the window of the rate-limit query.          *)
(* check_count only feeds the log and stops counting at MaxChecks here.          *)
MaxLiveTicks == 14
LivePool == {Sample1, Sample5}
LiveBatches == {b \in FetchedBatches : LivePool \subseteq Range(b)}

LiveTick ==
    /\ clock < StartClock + MaxLiveTicks
    /\ clock' = clock + 1
    /\ UNCHANGED <<faultVars, tz, max_notifications_per_hour,
                   storeVars, ret, ops, histVars, botVars,
                   batch, result>>

LiveRunCheckFetch(listings) ==
    /\ pc = "idle"
    /\ listings # <<>>
    /\ check_count' = IF check_count < MaxChecks THEN check_count + 1 ELSE check_count
    /\ matched' = FilteredBatch[listings]
    /\ idx' = 1
    /\ new_count' = 0
    /\ pc' = "loop"
    /\ polled' = Fetchers
    /\ UNCHANGED <<fault, offered, clock, tz, max_notifications_per_hour,
                   storeVars, ret, ops, histVars,
                   new_listings_count, success, batch, result>>

(* new_listings_count only feeds the log; it is kept as run_check computes it *)
BotStep ==
    \/ \E b \in LiveBatches : LiveRunCheckFetch(b)
    \/ LoopDone
    \/ LoopSkipSeen
    \/ LoopBreak
    \/ LoopNew
    \/ \E sink_ok \in BOOLEAN : NotifySend(sink_ok)
    \/ NotifyLog
    \/ MarkSeenStep
    \/ Sleep

NextLive ==
    \/ LiveTick
    \/ \E b \in LiveBatches : LiveRunCheckFetch(b)
    \/ LoopDone
    \/ LoopSkipSeen
    \/ LoopBreak
    \/ LoopNew
    \/ \E sink_ok \in BOOLEAN : NotifySend(sink_ok)
    \/ NotifyLog
    \/ MarkSeenStep
    \/ Sleep

(* a host west of UTC, where a row of the new UTC day closes the gate for hours, *)
(* and a quota of one notification                                              *)
InitLive ==
    /\ Init
    /\ tz = 0 - 10
    /\ max_notifications_per_hour = 1

(* the poll loop always takes its next step (while self.running, sleep returns), *)
(* and time passes                                                               *)
SpecLive == InitLive /\ [][NextLive]_vars /\ WF_vars(BotStep) /\ WF_vars(LiveTick)

-----------------------------------------------------------------------------
(* Two pollers on one database file.  Each walks its own list of identities the *)
(* way process_listings does: is_listing_seen, and for an unseen one later        *)
(* mark_listing_seen.  Every store call opens its own connection and runs one     *)
(* statement, which SQLite executes atomically; the calls of the two pollers      *)
(* interleave freely.  pc, ret, matched and idx are functions of the poller here. *)
MaxPollerBatch == 2
Pollers == {"A", "B"}
PollerPayload ==
    [p \in Pollers |->
        IF p = "A" THEN <<"https://olx.co.id/item/a", Some(TitleAvanzaG), Some(150000000)>>
        ELSE <<"https://olx.co.id/item/b", None, Some(130000000)>>]
PollerBatches == SeqsUpTo(Identities, MaxPollerBatch) \ {<<>>}

InitPollers ==
    /\ clock = StartClock
    /\ tz = 0
    /\ max_notifications_per_hour = 1
    /\ seen_listings = <<>>
    /\ notification_log = <<>>
    /\ error_log = <<>>
    /\ ret = [p \in Pollers |-> None]
    /\ ops = 0
    /\ marked = <<>>
    /\ sent = <<>>
    /\ alerts = <<>>
    /\ offered = <<>>
    /\ fault = "none"
    /\ polled = {}
    /\ check_count = 0
    /\ new_listings_count = 0
    /\ matched \in [Pollers -> PollerBatches]
    /\ idx = [p \in Pollers |-> 1]
    /\ new_count = 0
    /\ success = FALSE
    /\ batch = <<>>
    /\ result = None
    /\ pc = [p \in Pollers |-> "check"]

(* storage.is_listing_seen(listing_id, source); a seen listing is skipped *)
PollerIsSeen(p) ==
    /\ pc[p] = "check"
    /\ idx[p] <= Len(matched[p])
    /\ LET id == matched[p][idx[p]]
           seen == is_listing_seen(id[1], id[2])
       IN /\ ret' = [ret EXCEPT ![p] = Some(seen)]
          /\ IF seen
             THEN idx' = [idx EXCEPT ![p] = idx[p] + 1] /\ pc' = pc
             ELSE idx' = idx /\ pc' = [pc EXCEPT ![p] = "mark"]
    /\ UNCHANGED <<faultVars, clock, tz, max_notifications_per_hour, storeVars, ops, histVars,
                   check_count, new_listings_count, matched, new_count, success, batch,
                   result>>

(* mark_listing_seen as a plain INSERT under UNIQUE(listing_id, source), relying on *)
(* the earlier is_listing_seen: a conflicting row raises sqlite3.IntegrityError     *)
PollerMark_TrustsCheck(p) ==
    /\ pc[p] = "mark"
    /\ LET id == matched[p][idx[p]]
       IN /\ IF is_listing_seen(id[1], id[2])
             THEN fault' = "store_raised" /\ seen_listings' = seen_listings
             ELSE /\ fault' = fault
                  /\ seen_listings' = mark_listing_seen_plain_insert(id[1], id[2],
                                          PollerPayload[p][1], PollerPayload[p][2],
                                          PollerPayload[p][3])
          /\ marked' = Append(marked, [listing_id |-> id[1], source |-> id[2],
                                        url |-> PollerPayload[p][1]])
    /\ idx' = [idx EXCEPT ![p] = idx[p] + 1]
    /\ pc' = [pc EXCEPT ![p] = "check"]
    /\ UNCHANGED <<offered, polled, clock, tz, max_notifications_per_hour, notification_log,
                   error_log, ret, ops, sent, alerts, check_count, new_listings_count,
                   matched, new_count, success, batch, result>>

(* storage.mark_listing_seen(listing_id, source, url, title, price) *)
PollerMark(p) ==
    /\ pc[p] = "mark"
    /\ LET id == matched[p][idx[p]]
       IN /\ seen_listings' = mark_listing_seen(id[1], id[2], PollerPayload[p][1],
                                                PollerPayload[p][2], PollerPayload[p][3])
          /\ marked' = Append(marked, [listing_id |-> id[1], source |-> id[2],
                                        url |-> PollerPayload[p][1]])
    /\ idx' = [idx EXCEPT ![p] = idx[p] + 1]
    /\ pc' = [pc EXCEPT ![p] = "check"]
    /\ UNCHANGED <<faultVars, clock, tz, max_notifications_per_hour, notification_log,
                   error_log, ret, ops, sent, alerts, check_count, new_listings_count,
                   matched, new_count, success, batch, result>>

NextPollers ==
    \/ \E p \in Pollers : PollerIsSeen(p)
    \/ \E p \in Pollers : PollerMark(p)

SpecPollers == InitPollers /\ [][NextPollers]_vars

-----------------------------------------------------------------------------
(* Properties *)

SameIdentity(a, b) == a.listing_id = b.listing_id /\ a.source = b.source
IdentityOf(listing) == [listing_id |-> listing.listing_id, source |-> SourceOf(listing)]
RowsOf(listing_id, source) ==
    {i \in DOMAIN seen_listings :
        seen_listings[i].listing_id = listing_id /\ seen_listings[i].source = source}

(* C1: across the poll cycles of one process the sink is invoked for a listing *)
(* notification at most once per identity (listing_id, source), whatever the   *)
(* batches repeat and whether the attempt succeeded or failed.                 *)
C1_AtMostOncePerIdentity ==
    \A i, j \in DOMAIN sent : SameIdentity(sent[i], sent[j]) => i = j

(* a failed attempt, and the same listing met again in the second cycle and skipped *)
C1_Witness ==
    /\ check_count = 2
    /\ pc = "loop"
    /\ Len(matched) = 2
    /\ idx = 3
    /\ SameIdentity(IdentityOf(matched[1]), IdentityOf(matched[2]))
    /\ Len(sent) = 1
    /\ SameIdentity(sent[1], IdentityOf(matched[1]))
    /\ ~sent[1].ok

(* C2: seen_listings holds exactly one row per distinct marked pair, a repeated  *)
(* mark is a no-op, and is_listing_seen(id, s) is true iff that exact pair was   *)
(* marked; marking (id, s1) does not make (id, s2) seen.                         *)
C2_SeenIffMarked ==
    /\ \A k \in Identities :
          is_listing_seen(k[1], k[2])
              <=> (\E c \in DOMAIN marked :
                      marked[c].listing_id = k[1] /\ marked[c].source = k[2])
    /\ \A k \in Identities : Cardinality(RowsOf(k[1], k[2])) <= 1
    /\ \A c \in DOMAIN marked : Cardinality(RowsOf(marked[c].listing_id, marked[c].source)) = 1
    /\ \A i \in DOMAIN seen_listings :
          \E c \in DOMAIN marked : SameIdentity(marked[c], seen_listings[i])

(* the same pair marked twice, the same id under the other source still unseen *)
C2_Witness ==
    /\ Len(marked) = 2
    /\ SameIdentity(marked[1], marked[2])
    /\ marked[1].listing_id = "1" /\ marked[1].source = "olx"
    /\ Len(seen_listings) = 1
    /\ ~is_listing_seen("1", "unknown")

(* C3: when the sink reports failure for a new match, a notification-log row *)
(* with success = 0 is recorded, the listing is still marked seen, and the   *)
(* loop goes on with the next match of the batch.                            *)
C3_FailureStillSeen ==
    [][/\ (pc = "log" /\ pc' # "log" /\ ~success)
          => /\ pc' = "mark"
             /\ notification_log' =
                    Append(notification_log,
                           [sent_at |-> CURRENT_TIMESTAMP,
                            listing_id |-> matched[idx].listing_id, success |-> 0])
       /\ (pc = "mark" /\ pc' # "mark" /\ ~success)
          => /\ \E i \in DOMAIN seen_listings' :
                    SameIdentity(seen_listings'[i], IdentityOf(matched[idx]))
             /\ pc' = "loop"
             /\ matched' = matched
             /\ idx' = idx + 1]_vars

(* a failed send was logged and marked, and the loop stands at a further match *)
C3_Witness ==
    /\ check_count = 1
    /\ pc = "loop"
    /\ Len(matched) = 2
    /\ idx = 2
    /\ ~SameIdentity(IdentityOf(matched[1]), IdentityOf(matched[2]))
    /\ Len(sent) = 1
    /\ ~sent[1].ok
    /\ SameIdentity(sent[1], IdentityOf(matched[1]))
    /\ Len(notification_log) = 1
    /\ notification_log[1].success = 0
    /\ is_listing_seen(matched[1].listing_id, SourceOf(matched[1]))

(* successful notifications whose send instant lies in the trailing 60 minutes *)
RecentSuccesses ==
    LET Recent(row) == row.success = 1 /\ InstantOf(row.sent_at) > clock - OneHour
    IN Count(notification_log, Recent)

(* C4: after MAX_NOTIFICATIONS_PER_HOUR successful log_notification calls within *)
(* one 60-minute window, can_send_notification() returns false, at every         *)
(* wall-clock time and date.                                                     *)
C4_CapClosesGate ==
    RecentSuccesses >= max_notifications_per_hour => ~can_send_notification

(* C5: at every time, can_send_notification() is true iff the number of      *)
(* successful notifications of the trailing 60 minutes is below the cap.     *)
C5_GateIffBelowCap ==
    can_send_notification <=> RecentSuccesses < max_notifications_per_hour

(* C6: log_notification(id, success=False) appends a row and never changes *)
(* the result of can_send_notification().                                  *)
C6_FailedLogKeepsGate ==
    [][\A id \in LoggedIds :
          LogNotification(id, FALSE)
              => /\ Len(notification_log') = Len(notification_log) + 1
                 /\ notification_log'[Len(notification_log')].success = 0
                 /\ can_send_notification' = can_send_notification]_vars

(* a failed row logged last while a counted success leaves quota for one more *)
C6_Witness ==
    /\ Len(notification_log) >= 2
    /\ notification_log[Len(notification_log)].success = 0
    /\ get_notification_count_last_hour = 1
    /\ max_notifications_per_hour = 2
    /\ can_send_notification

(* C7: per error_type at most one alert is delivered in any trailing 60       *)
(* minutes: after log_error_notification(T, m), can_send_error_notification(T)*)
(* is false for the next 60 minutes.                                          *)
C7_OneAlertPerHour ==
    /\ \A i, j \in DOMAIN alerts :
          (i < j /\ alerts[i].error_type = alerts[j].error_type)
              => alerts[j].at - alerts[i].at >= OneHour
    /\ \A i \in DOMAIN error_log :
          InstantOf(error_log[i].notified_at) > clock - OneHour
              => ~can_send_error_notification(error_log[i].error_type)

(* C8: a seen_listings row is never modified or removed by any store operation: *)
(* not by a later mark_listing_seen of the same pair with another url, title or *)
(* price, and not by cleanup_old_data.                                          *)
C8_SeenRowsImmutable ==
    [][\A i \in DOMAIN seen_listings :
          i \in DOMAIN seen_listings' /\ seen_listings'[i] = seen_listings[i]]_vars

(* the pair marked again with another url, then a cleanup, the first row intact *)
C8_Witness ==
    /\ Len(marked) = 2
    /\ SameIdentity(marked[1], marked[2])
    /\ marked[1].url # marked[2].url
    /\ ret # None
    /\ Len(seen_listings) = 1
    /\ seen_listings[1].url = marked[1].url

(* C9: cleanup_old_data(days) deletes exactly the log rows older than now minus *)
(* days, keeps every newer row, and returns the number of rows deleted.         *)
C9_CleanupByAge ==
    [][\A days \in 0 .. MaxDays :
          CleanupOldData(days)
              => LET cutoff == clock - days * TicksPerDay
                 IN /\ \A i \in DOMAIN notification_log :
                          InstantOf(notification_log[i].sent_at) > cutoff
                              => notification_log[i] \in Range(notification_log')
                    /\ \A i \in DOMAIN notification_log' :
                          ~(InstantOf(notification_log'[i].sent_at) < cutoff)
                    /\ \A i \in DOMAIN error_log :
                          InstantOf(error_log[i].notified_at) > cutoff
                              => error_log[i] \in Range(error_log')
                    /\ \A i \in DOMAIN error_log' :
                          ~(InstantOf(error_log'[i].notified_at) < cutoff)
                    /\ ret' = Some((Len(notification_log) - Len(notification_log'))
                                   + (Len(error_log) - Len(error_log')))]_vars

PassesFiveChecks(listing) ==
    /\ is_avanza(listing.title, listing.description)
    /\ check_year(listing.year)
    /\ check_price(listing.price)
    /\ check_km(listing.km)
    /\ check_transmission(listing.transmission)
InputFields == DOMAIN Sample1
StripEnrichment(e) == [f \in InputFields |-> e[f]]
PassingOf(listings) == Select(listings, PassesFiveChecks)

WithScore(seq, s) == Select(seq, LAMBDA r : r.score = s)

(* C11: the sequence returned by filter_listings is ordered by score            *)
(* non-increasing, and returned records of equal score keep the relative order  *)
(* they have in the input batch (the order of the matched list before the sort).*)
C11_SortedStable ==
    pc = "matched" =>
        LET res == Val(result)
            m == MatchedOf(batch)
        IN /\ \A i \in 1 .. (Len(res) - 1) : res[i].score >= res[i + 1].score
           /\ \A s \in {m[i].score : i \in DOMAIN m} \cup {res[i].score : i \in DOMAIN res} :
                 WithScore(res, s) = WithScore(m, s)

(* two different records of equal score returned in input order *)
C11_Witness ==
    /\ pc = "matched"
    /\ Len(batch) = 2
    /\ Len(Val(result)) = 2
    /\ Val(result)[1].score = Val(result)[2].score
    /\ Val(result)[1].listing_id # Val(result)[2].listing_id
    /\ Val(result)[1].listing_id = batch[1].listing_id

(* C12: a store operation that fails during a cycle is fatal to the cycle and is   *)
(* not masked: no further listing of the cycle goes to the sink, and the failure   *)
(* leaves run_check and reaches the top-level loop of run instead of being handled *)
(* inside the cycle as a fetch error.                                              *)
C12_StoreFailurePropagates ==
    [][(fault # "store_raised" /\ fault' = "store_raised")
        => /\ sent' = sent
           /\ pc' = "stopped"
           /\ \A i \in (Len(offered) + 1) .. Len(offered') : offered'[i] # "fetch_error"]_vars

(* C13: when the listing source fails in a cycle (it raises, or it gives up after *)
(* its retries and returns nothing), run_check does not raise, the poll loop goes *)
(* on, and an error alert of that error type is offered to the sink (subject to   *)
(* the hourly error gate).                                                        *)
C13_SourceFailureAlerted ==
    [][(fault = "none" /\ fault' \in {"fetch_raised", "fetch_exhausted"})
        => /\ pc' = "sleep"
           /\ offered' = Append(offered, "fetch_error")]_vars

(* C14: a cycle whose fetch returns an empty sequence (no results or a failed     *)
(* fetch) writes nothing to the store, invokes the sink for nothing and leaves    *)
(* the seen listings, the notification log and the new-listings counter as they   *)
(* are; only the cycle counter advances.                                          *)
C14_EmptyCycleNoOp ==
    [][(pc = "idle" /\ pc' = "sleep" /\ fault' \in {"none", "fetch_exhausted"})
        => /\ UNCHANGED <<seen_listings, notification_log, error_log>>
           /\ UNCHANGED <<marked, sent, alerts, offered>>
           /\ UNCHANGED new_listings_count
           /\ check_count' = check_count + 1]_vars

(* the second cycle fetched nothing after a first cycle that notified and marked *)
C14_Witness ==
    /\ pc = "sleep"
    /\ fault = "fetch_exhausted"
    /\ check_count = 2
    /\ new_listings_count = 1
    /\ Len(seen_listings) > 0
    /\ Len(notification_log) > 0

(* C15: an interruption takes effect only between cycles: when the loop has left *)
(* after an interruption, every listing the sink was invoked for has its         *)
(* notification-log row and its seen row.                                        *)
C15_InterruptBetweenCycles ==
    (pc = "stopped" /\ fault = "interrupted")
        => /\ Len(notification_log) = Len(sent)
           /\ \A i \in DOMAIN sent : is_listing_seen(sent[i].listing_id, sent[i].source)

(* the score the scoring table gives when the configured maximum year is max_year *)
ScoreByTable(listing, max_year) ==
    LET plate == IF listing.plat = "F" THEN 30 ELSE 0
        km == IF IsNone(listing.km) THEN 0
              ELSE IF Val(listing.km) < 20000 THEN 15
              ELSE IF Val(listing.km) < 40000 THEN 10
              ELSE IF Val(listing.km) < 60000 THEN 5
              ELSE 0
        year == IF IsNone(listing.year) THEN 0
                ELSE IF Val(listing.year) = max_year THEN 10
                ELSE IF Val(listing.year) = max_year - 1 THEN 5
                ELSE 0
        price == IF IsNone(listing.price) THEN 0
                 ELSE IF Val(listing.price) > 180000000 THEN 0 - 5
                 ELSE IF Val(listing.price) < 140000000 THEN 5
                 ELSE 0
        sum == 50 + plate + km + year + price
    IN IF sum > 100 THEN 100 ELSE IF sum < 0 THEN 0 ELSE sum

(* values FILTER_MAX_YEAR takes from the environment; 2021 is the default *)
ConfiguredMaxYears == {2020, FILTER_MAX_YEAR, 2022}

(* C16: for every listing and every configuration of the year range,            *)
(* calculate_score is the clamp to [0,100] of 50 plus: +30 for the priority     *)
(* plate; +15 / +10 / +5 for km below 20000 / 40000 / 60000; +10 for year equal *)
(* to the configured max_year and +5 for max_year - 1; -5 for price above       *)
(* 180,000,000 and +5 for price below 140,000,000; nothing for a missing field. *)
C16_ScoreFollowsConfiguredYear ==
    pc = "scored" =>
        \A max_year \in ConfiguredMaxYears : Val(result) = ScoreByTable(batch[1], max_year)

(* C17: every record returned by filter_listings carries an integer score with *)
(* 0 <= score <= 100 and a plate region that is one uppercase letter or        *)
(* 'unknown', whichever of km, year, price and plate are present.              *)
C17_ScoreAndPlateInRange ==
    pc = "matched" =>
        \A j \in DOMAIN Val(result) :
            /\ Val(result)[j].score \in 0 .. 100
            /\ Val(result)[j].plat \in UpperLetters \cup {"unknown"}

(* a returned record whose adjustments add up to 110 and whose score is 100 *)
C17_Witness ==
    /\ pc = "matched"
    /\ Len(Val(result)) = 1
    /\ Val(result)[1].plat = "F"
    /\ ~IsNone(batch[1].km)
    /\ Val(batch[1].km) < 20000
    /\ Val(batch[1].year) = 2021
    /\ Val(batch[1].price) < 140000000
    /\ Val(result)[1].score = 100

(* C18: under the default criteria the scenario record (Avanza Veloz 2020,      *)
(* 'plat F Bogor', 160,000,000, 35000 km, manual) is returned by                *)
(* filter_listings, enriched with plate region 'F' and a score of at least 80.  *)
C18_ScenarioReturned ==
    (pc = "matched" /\ batch = <<ScenarioRecord>>)
        => /\ Len(Val(result)) = 1
           /\ StripEnrichment(Val(result)[1]) = ScenarioRecord
           /\ Val(result)[1].plat = "F"
           /\ Val(result)[1].score >= 80

C18_Witness ==
    /\ pc = "matched"
    /\ batch = <<ScenarioRecord>>
    /\ Val(result)[1].plat = "F"

(* C19 (as stated): the scenario record scores exactly 90 (50 + 30 + 10), year *)
(* 2020 earning no year bonus and price 160,000,000 no price adjustment.       *)
C19_ScenarioScore90 ==
    (pc = "matched" /\ batch = <<ScenarioRecord>>) => Val(result)[1].score = 90

(* C19 (amended): the scenario record scores exactly 95: 50, +30 for plate F,  *)
(* +10 for the 20000-40000 km band, +5 because year 2020 is the maximum year   *)
(* minus one; price 160,000,000 earns no adjustment.                           *)
C19_ScenarioScore95 ==
    (pc = "matched" /\ batch = <<ScenarioRecord>>)
        => /\ Val(result)[1].score = 95
           /\ Val(result)[1].score = ScoreByTable(Val(result)[1], FILTER_MAX_YEAR)
           /\ Val(ScenarioRecord.year) = FILTER_MAX_YEAR - 1

C19_Witness ==
    /\ pc = "matched"
    /\ batch = <<ScenarioRecord>>
    /\ Val(result)[1].score > 90

(* a keyword occurs in the lower-cased "title description" text *)
OccursIn(title, description, keywords) ==
    LET text == Lower(title \o <<" ">> \o description)
    IN \E k \in DOMAIN keywords : \E i \in DOMAIN text : LiteralAt(text, i, keywords[k])
IsExcludeWord(word) == Lower(word) \in Range(NON_AVANZA_KEYWORDS)

(* C20: is_avanza(title, description) is true iff the lower-cased text contains  *)
(* an include keyword and no exclude keyword; appending an exclude keyword to a  *)
(* text that passed makes it fail, and once an exclude keyword is present no     *)
(* added include keyword makes it pass; 'Toyota Innova 2020 Manual' and a text   *)
(* matching neither set are rejected.                                            *)
C20_IsAvanzaMonotonic ==
    [][pc' = "verdict" =>
        LET title == batch'[1].title
            description == batch'[1].description
            excluded_before == OccursIn(batch[1].title, batch[1].description,
                                        NON_AVANZA_KEYWORDS)
        IN /\ Val(result') = (/\ OccursIn(title, description, AVANZA_KEYWORDS)
                               /\ ~OccursIn(title, description, NON_AVANZA_KEYWORDS))
           /\ (pc = "verdict" /\ IsExcludeWord(Val(ret'))) => Val(result') = FALSE
           /\ (pc = "verdict" /\ excluded_before) => Val(result') = FALSE
           /\ title = TitleInnova => Val(result') = FALSE
           /\ (title = TitleJazz /\ description = DescPlate) => Val(result') = FALSE]_vars

(* a text that passed, an exclude keyword appended (rejected), then an include *)
(* keyword appended (still rejected)                                           *)
C20_Witness ==
    /\ pc = "verdict"
    /\ ops = 2
    /\ batch[1].title = TitleAvanzaG
    /\ ~IsExcludeWord(Val(ret))
    /\ OccursIn(batch[1].title, batch[1].description, NON_AVANZA_KEYWORDS)
    /\ OccursIn(<<>>, Val(ret), AVANZA_KEYWORDS)
    /\ Val(result) = FALSE

(* some plate pattern matches somewhere in the upper-cased text *)
SomePatternMatches(title, description) ==
    LET text == Upper(title \o <<" ">> \o description)
    IN \E i \in DOMAIN text :
          \/ KeywordGroupAt(text, KW_PLAT, i) # 0
          \/ KeywordGroupAt(text, KW_NOPOL, i) # 0
          \/ PlateMatchAt(text, i)
          \/ HyphenMatchAt(text, i)

(* C21: detect_plat tries the keyword patterns ('PLAT X', 'NOPOL X') first, then *)
(* 'X 1234 ABC', then 'X-1234', and returns the letter of the first pattern that *)
(* matches anywhere in the upper-cased text: with a 'PLAT X' phrase and a plate  *)
(* number of another letter Y in the text, X is returned wherever the two stand; *)
(* 'unknown' is returned iff no pattern matches.                                 *)
C21_KeywordPatternFirst ==
    pc = "detected" =>
        LET in == batch[1]
        IN /\ ~IsNone(in.keyword) => Val(result) = UpperChar(Val(in.keyword).letter)
           /\ (IsNone(in.keyword) /\ ~IsNone(in.plate)) => Val(result) = Val(in.plate).letter
           /\ (Val(result) = "unknown") = ~SomePatternMatches(in.title, in.description)
           /\ (IsNone(in.keyword) /\ IsNone(in.plate)) => Val(result) = "unknown"

(* 'Avanza D 1234 XYZ plat F': the plate number of D stands first, F is returned *)
C21_Witness ==
    /\ pc = "detected"
    /\ ~IsNone(batch[1].keyword)
    /\ ~IsNone(batch[1].plate)
    /\ batch[1].plate_first
    /\ batch[1].description = <<>>
    /\ Val(batch[1].plate).letter = "D"
    /\ Val(result) = "F"

(* C22: check_year and check_price are hard: false for an absent value, and for *)
(* a present value true exactly within the inclusive configured bounds; a record *)
(* lacking year or price is never returned by filter_listings.                   *)
C22_YearAndPriceRequired ==
    pc = "matched" =>
        /\ \A i \in DOMAIN batch :
              LET y == batch[i].year
                  p == batch[i].price
              IN /\ IsNone(y) => ~check_year(y)
                 /\ ~IsNone(y) =>
                       (check_year(y) <=> Val(y) \in FILTER_MIN_YEAR..FILTER_MAX_YEAR)
                 /\ IsNone(p) => ~check_price(p)
                 /\ ~IsNone(p) =>
                       (check_price(p) <=> Val(p) \in FILTER_MIN_PRICE..FILTER_MAX_PRICE)
        /\ \A j \in DOMAIN Val(result) :
              /\ ~IsNone(Val(result)[j].year)
              /\ ~IsNone(Val(result)[j].price)
        /\ (\A i \in DOMAIN batch : IsNone(batch[i].year) \/ IsNone(batch[i].price))
              => Val(result) = <<>>

(* a record lacking only its year, passing every other check, is not returned *)
C22_Witness ==
    /\ pc = "matched"
    /\ Len(batch) = 1
    /\ IsNone(batch[1].year)
    /\ is_avanza(batch[1].title, batch[1].description)
    /\ batch[1].price = Some(FILTER_MAX_PRICE)
    /\ batch[1].km = Some(0)
    /\ batch[1].transmission = Some(TextManual)
    /\ Val(result) = <<>>

(* the km and transmission of a record are absent or acceptable *)
SoftChecksPass(listing) ==
    /\ IsNone(listing.km) \/ Val(listing.km) \in 0..FILTER_MAX_KM
    /\ IsNone(listing.transmission)
          \/ Lower(Val(listing.transmission)) = FILTER_TRANSMISSION

(* C23: check_km and check_transmission are soft: an absent value passes; a      *)
(* present km passes iff 0 <= km <= max_km; a present transmission passes iff it *)
(* equals the configured one ignoring case; a record passing the model, year and *)
(* price checks is never discarded merely for a missing km or transmission.      *)
C23_KmAndTransmissionOptional ==
    pc = "matched" =>
        /\ \A i \in DOMAIN batch :
              LET k == batch[i].km
                  t == batch[i].transmission
              IN /\ IsNone(k) => check_km(k)
                 /\ ~IsNone(k) => (check_km(k) <=> Val(k) \in 0..FILTER_MAX_KM)
                 /\ (~IsNone(k) /\ Val(k) < 0) => ~check_km(k)
                 /\ IsNone(t) => check_transmission(t)
                 /\ ~IsNone(t) =>
                       (check_transmission(t) <=> Lower(Val(t)) = FILTER_TRANSMISSION)
        /\ \A i \in DOMAIN batch :
              (/\ is_avanza(batch[i].title, batch[i].description)
               /\ check_year(batch[i].year)
               /\ check_price(batch[i].price)
               /\ SoftChecksPass(batch[i]))
                  => \E j \in DOMAIN Val(result) : StripEnrichment(Val(result)[j]) = batch[i]

(* a record with neither km nor transmission is returned *)
C23_Witness ==
    /\ pc = "matched"
    /\ Len(batch) = 1
    /\ IsNone(batch[1].km)
    /\ IsNone(batch[1].transmission)
    /\ Len(Val(result)) = 1
    /\ StripEnrichment(Val(result)[1]) = batch[1]

(* C24: every cycle polls each configured source (OLX, Mobil123, Carmudi, Jualo), *)
(* one at a time, each batch fully processed before the next source is polled,    *)
(* and the failure of one source does not keep the others from being polled.      *)
C24_EverySourcePolled ==
    pc = "sleep" => polled = ConfiguredSources

(* the listing the loop is at, and whether the store has it as seen *)
AtListing == pc \in {"loop", "notify", "log", "mark"} /\ idx <= Len(matched)
CurrentSeen == is_listing_seen(matched[idx].listing_id, SourceOf(matched[idx]))

(* C25: the sink is invoked for a match only when, at that moment, the match is  *)
(* not seen and can_send_notification is true; the first match that finds the    *)
(* quota exhausted ends the batch, and neither it nor any later match of the     *)
(* batch is sent or marked seen; a seen match is skipped without a log row.      *)
C25_SendOnlyNewWithinQuota ==
    [][/\ sent' # sent =>
             /\ pc = "notify" /\ AtListing
             /\ ~CurrentSeen
             /\ can_send_notification
             /\ sent' = Append(sent, [listing_id |-> matched[idx].listing_id,
                                      source |-> SourceOf(matched[idx]),
                                      ok |-> sent'[Len(sent')].ok])
       /\ (pc = "loop" /\ AtListing /\ ~CurrentSeen /\ ~can_send_notification
               /\ clock' = clock) =>
             /\ pc' = "sleep"
             /\ matched' = <<>>
             /\ UNCHANGED <<sent, marked, storeVars>>
       /\ pc = "sleep" => UNCHANGED <<sent, marked, storeVars>>
       /\ (pc = "loop" /\ AtListing /\ CurrentSeen /\ clock' = clock) =>
             /\ pc' = "loop" /\ idx' = idx + 1 /\ matched' = matched
             /\ UNCHANGED <<sent, marked, storeVars>>]_vars

(* the second match of a batch, not seen, finds the quota used up by the first *)
C25_Witness ==
    /\ pc = "loop"
    /\ Len(matched) = 2
    /\ idx = 2
    /\ ~CurrentSeen
    /\ ~can_send_notification
    /\ Len(sent) = 1
    /\ sent[1].listing_id = matched[1].listing_id
    /\ sent[1].ok

(* C26: for each listing attempted, in this order and before the next listing is  *)
(* looked at: the sink is invoked, exactly one notification-log row with the      *)
(* sink's result is written, the listing is marked seen; in a single-process run  *)
(* no listing is marked seen without its log row having been written first.       *)
C26_SendLogMarkInOrder ==
    /\ pc \in {"idle", "loop", "notify", "sleep"} =>
          Len(sent) = Len(notification_log) /\ Len(notification_log) = Len(marked)
    /\ pc = "log" =>
          Len(sent) = Len(notification_log) + 1 /\ Len(notification_log) = Len(marked)
    /\ pc = "mark" =>
          Len(sent) = Len(notification_log) /\ Len(notification_log) = Len(marked) + 1
    /\ pc \in {"log", "mark"} =>
          /\ AtListing
          /\ sent[Len(sent)].listing_id = matched[idx].listing_id
          /\ sent[Len(sent)].ok = success
    /\ \A i \in DOMAIN notification_log :
          /\ notification_log[i].listing_id = sent[i].listing_id
          /\ notification_log[i].success = (IF sent[i].ok THEN 1 ELSE 0)
    /\ \A i \in DOMAIN marked :
          /\ marked[i].listing_id = sent[i].listing_id
          /\ marked[i].source = sent[i].source
    /\ \A i \in DOMAIN seen_listings :
          \E j \in DOMAIN notification_log :
              notification_log[j].listing_id = seen_listings[i].listing_id

(* a listing the sink refused: one log row with success 0, then marked seen *)
C26_Witness ==
    /\ pc = "loop"
    /\ Len(sent) = 1
    /\ ~sent[1].ok
    /\ Len(notification_log) = 1
    /\ notification_log[1].success = 0
    /\ Len(seen_listings) = 1
    /\ seen_listings[1].listing_id = sent[1].listing_id

(* C27: with two pollers on the same database, every store call being atomic,    *)
(* whatever the interleaving of their is_listing_seen and mark_listing_seen calls *)
(* for one identity, the table never holds more than one row for the identity    *)
(* and no mark call fails.                                                        *)
C27_ConcurrentMarksOneRow ==
    /\ \A id \in Identities :
          Cardinality({i \in DOMAIN seen_listings :
                          /\ seen_listings[i].listing_id = id[1]
                          /\ seen_listings[i].source = id[2]}) <= 1
    /\ fault = "none"
    /\ \A i \in DOMAIN marked : is_listing_seen(marked[i].listing_id, marked[i].source)
    /\ \A p \in Pollers : pc[p] = "mark" => ret[p] = Some(FALSE)

(* both pollers found the identity unseen and both then marked it: one row *)
C27_Witness ==
    /\ Len(marked) = 2
    /\ marked[1].listing_id = marked[2].listing_id
    /\ marked[1].source = marked[2].source
    /\ marked[1].url # marked[2].url
    /\ Len(seen_listings) = 1
    /\ seen_listings[1].url = marked[1].url
    /\ \A p \in Pollers : ret[p] = Some(FALSE)

(* the loop is at listing l, which is not seen, and the quota is exhausted *)
Starved(l) ==
    /\ pc = "loop" /\ AtListing
    /\ matched[idx].listing_id = l
    /\ ~CurrentSeen
    /\ ~can_send_notification
SentTo(l) == \E i \in DOMAIN sent : sent[i].listing_id = l
LiveIds == {r.listing_id : r \in LivePool}

(* C28: a listing left unprocessed because the quota was exhausted stays unseen,  *)
(* and, the store and the fetch working and the source still offering it, it is   *)
(* eventually sent in a later cycle once the quota allows.                        *)
C28_StarvedEventuallySent ==
    /\ [](\A i \in DOMAIN seen_listings : SentTo(seen_listings[i].listing_id))
    /\ \A l \in LiveIds : Starved(l) ~> SentTo(l)

(* the second send happens in a later cycle than the first: the listing was starved *)
C28_Witness ==
    /\ pc = "log"
    /\ check_count = 2
    /\ Len(sent) = 2
    /\ Len(marked) = 1
    /\ Len(notification_log) = 1
    /\ notification_log[1].success = 1
    /\ new_listings_count = 1

(* C29: within one cycle the sink is invoked in non-increasing score order: the   *)
(* match being sent scores no more than the matches the loop has passed and no    *)
(* less than those still ahead, so every new match notified in the cycle scores   *)
(* at least as much as every new match left un-notified.                          *)
C29_HighestScoreFirst ==
    [][/\ sent' # sent =>
             /\ AtListing
             /\ sent'[Len(sent')].listing_id = matched[idx].listing_id
             /\ \A j \in 1..(idx - 1) : matched[j].score >= matched[idx].score
             /\ \A j \in (idx + 1)..Len(matched) : matched[j].score <= matched[idx].score
       /\ (pc \in {"loop", "notify", "log", "mark"} /\ pc' \in {"loop", "notify", "log", "mark"}) =>
             /\ matched' = matched
             /\ idx' \in {idx, idx + 1}]_vars

(* two matches of one batch sent in one cycle, the higher score first *)
C29_Witness ==
    /\ pc = "log"
    /\ check_count = 1
    /\ Len(matched) = 2
    /\ idx = 2
    /\ matched[1].score > matched[2].score
    /\ Len(sent) = 2
    /\ sent[1].listing_id = matched[1].listing_id
    /\ sent[2].listing_id = matched[2].listing_id

(* C30: notify_error appends an error-log row only when the sink accepted the    *)
(* alert: with the gate closed nothing is sent or logged; when the send fails    *)
(* nothing is logged, so the failed alert does not consume the quota and the     *)
(* next error of that type is offered to the sink again.                         *)
C30_ErrorLoggedOnlyWhenAccepted ==
    [][offered' # offered =>
          LET error_type == offered'[Len(offered')]
          IN /\ offered' = Append(offered, error_type)
             /\ (error_log' # error_log) <=> (alerts' # alerts)
             /\ ~can_send_error_notification(error_type) => UNCHANGED <<error_log, alerts>>
             /\ alerts' # alerts =>
                   /\ can_send_error_notification(error_type)
                   /\ alerts' = Append(alerts, [error_type |-> error_type, at |-> clock])
                   /\ Len(error_log') = Len(error_log) + 1
                   /\ error_log'[Len(error_log')].error_type = error_type
                   /\ SubSeq(error_log', 1, Len(error_log)) = error_log
             /\ alerts' = alerts => UNCHANGED <<error_log, clock, tz>>]_vars

(* two alerts of one type offered, the sink refused both: no row, the gate is open *)
C30_Witness ==
    /\ ops = 2
    /\ Len(offered) = 2
    /\ offered[1] = offered[2]
    /\ error_log = <<>>
    /\ alerts = <<>>
    /\ can_send_error_notification(offered[1])

====
